---- MODULE Spec2Model ----
(***************************************************************************)
(* Model of utils/lexbor/css/syntax/definitions.py: the generator of the   *)
(* lxb_css_syntax_res_name_map table.  name() builds a lexbor.LXB.Res,     *)
(* appends one tag per code of range(0, 255) and renders the table with    *)
(* res.create.  The operations of lexbor.LXB.Res are modelled from the     *)
(* specification of the Table Encoder.                                     *)
(***************************************************************************)
EXTENDS Integers, Sequences, FiniteSets, TLC

VARIABLES pc, code, res, calls, visited, ret, err, history, input, tag

vars == <<pc, code, res, calls, visited, ret, err, history, input, tag>>

(* ------------------------------ bounds --------------------------------- *)
\* number of calls of name() that are followed
MaxRuns == 2
\* how far outside [0,255] the inputs of the rule chain are drawn
Margin == 3

(* ------------------------- program constants --------------------------- *)
name_start_code_point == "0x01"
name_code_point == "0x02"
def_before == <<"#define LXB_CSS_SYNTAX_RES_NAME_START ", name_start_code_point>>

\* range(0, 255): first value and (exclusive) stop value
RangeStart == 0
RangeStop == 255
\* the length given to lexbor.LXB.Res
Capacity == 256

NoRes == [type_name |-> "", name |-> "", is_const |-> FALSE, length |-> 0,
          result |-> <<>>]
NoRet == <<"no value">>
NoTag == "unset"

(* ----------------------- the classification chain ---------------------- *)
NumClauses == 9

\* mutant: the upper bound of a-z is exclusive
ClauseMut_C2(k, c) ==
    CASE k = 1 -> c >= 97 /\ c < 122
      [] k = 2 -> c >= 65 /\ c <= 90
      [] k = 3 -> c >= 48 /\ c <= 57
      [] k = 4 -> c >= 192 /\ c <= 214
      [] k = 5 -> c >= 216 /\ c <= 246
      [] k = 6 -> c >= 248 /\ c <= 255
      [] k = 7 -> c = 95
      [] k = 8 -> c = 183
      [] k = 9 -> c = 45
      [] OTHER -> FALSE

\* mutant: the range 0xF8-0xFF starts at 0xF6 and overlaps 0xD8-0xF6
ClauseMut_C9(k, c) ==
    CASE k = 1 -> c >= 97 /\ c <= 122
      [] k = 2 -> c >= 65 /\ c <= 90
      [] k = 3 -> c >= 48 /\ c <= 57
      [] k = 4 -> c >= 192 /\ c <= 214
      [] k = 5 -> c >= 216 /\ c <= 246
      [] k = 6 -> c >= 246 /\ c <= 255
      [] k = 7 -> c = 95
      [] k = 8 -> c = 183
      [] k = 9 -> c = 45
      [] OTHER -> FALSE

\* the condition of the k-th if/elif of the chain, in source order
Clause(k, c) ==
    CASE k = 1 -> c >= 97 /\ c <= 122       \* 0x61 .. 0x7A
      [] k = 2 -> c >= 65 /\ c <= 90        \* 0x41 .. 0x5A
      [] k = 3 -> c >= 48 /\ c <= 57        \* 0x30 .. 0x39
      [] k = 4 -> c >= 192 /\ c <= 214      \* 0xC0 .. 0xD6
      [] k = 5 -> c >= 216 /\ c <= 246      \* 0xD8 .. 0xF6
      [] k = 6 -> c >= 248 /\ c <= 255      \* 0xF8 .. 0xFF
      [] k = 7 -> c = 95                    \* 0x5F
      [] k = 8 -> c = 183                   \* 0xB7
      [] k = 9 -> c = 45                    \* 0x2D
      [] OTHER -> FALSE

\* mutant: the digits are tagged as name-start code points
ClauseTagMut_C3(k) ==
    IF k = 9 THEN name_code_point ELSE name_start_code_point

\* the value appended by the body of the k-th if/elif
ClauseTag(k) ==
    IF k = 3 \/ k = 9 THEN name_code_point ELSE name_start_code_point

\* the chain evaluated in the order given by the sequence order: the body
\* of the first clause whose condition holds, "0x00" when none holds
RECURSIVE ChainFrom(_, _, _)
ChainFrom(order, i, c) ==
    IF i > Len(order) THEN "0x00"
    ELSE IF Clause(order[i], c) THEN ClauseTag(order[i])
    ELSE ChainFrom(order, i + 1, c)

SourceOrder == [k \in 1..NumClauses |-> k]

\* mutant: the gap value 0xD7 is taken into the range 0xD8-0xF6
ClassifyMut_C4(c) ==
    IF c = 215 THEN name_start_code_point ELSE ChainFrom(SourceOrder, 1, c)

\* the tag the if/elif/else chain of name() appends for the value c
Classify(c) == ChainFrom(SourceOrder, 1, c)

(* --------------------- lexbor.LXB.Res (Table Encoder) ------------------ *)
\* construct(typeName, arrayName, isReadOnly, capacity)
ResNew(type_name, name, is_const, length) ==
    [type_name |-> type_name, name |-> name, is_const |-> is_const,
     length |-> length, result |-> <<>>]

\* append(handle, value): no reordering, no deduplication
ResAppend(r, value) == [r EXCEPT !.result = Append(@, value)]

\* the entries of the row that starts at index i (1-based), rate per row
RowAt(r, i, rate) ==
    SubSeq(r.result, i, IF i + rate - 1 < Len(r.result) THEN i + rate - 1
                        ELSE Len(r.result))

RECURSIVE RowsFrom(_, _, _)
RowsFrom(r, i, rate) ==
    IF i > Len(r.result) THEN <<>>
    ELSE <<RowAt(r, i, rate)>> \o RowsFrom(r, i + rate, rate)

\* render(handle, columnsPerRow, useHexLiterals, prependedText): the lines
\* of the declaration, or a ConfigurationError when the number of appended
\* values is not the capacity
ResCreate(r, rate, is_hex, data_before) ==
    IF Len(r.result) # r.length
    THEN [err |-> "ConfigurationError", lines |-> <<>>]
    ELSE [err |-> "none",
          lines |-> <<data_before>>
                    \o << <<"static", IF r.is_const THEN "const" ELSE "",
                            r.type_name, r.name, ToString(r.length)>> >>
                    \o RowsFrom(r, 1, rate)
                    \o << <<"};">> >>]

\* ''.join(map_list)
RECURSIVE Join(_)
Join(lines) ==
    IF lines = <<>> THEN <<>> ELSE Head(lines) \o Join(Tail(lines))

(* ------------------------------- name() -------------------------------- *)
Init ==
    /\ pc = "start"
    /\ code = RangeStart
    /\ res = NoRes
    /\ calls = <<>>
    /\ visited = <<>>
    /\ ret = NoRet
    /\ err = "none"
    /\ history = <<>>
    /\ input = 0
    /\ tag = NoTag

\* mutant: the capacity is given as the number of values of the range
ConstructMut_C5 ==
    /\ pc = "start"
    /\ res' = ResNew("lxb_char_t", "lxb_css_syntax_res_name_map", TRUE, Capacity - 1)
    /\ calls' = <<"construct">>
    /\ code' = RangeStart
    /\ visited' = <<>>
    /\ pc' = "loop"
    /\ UNCHANGED <<ret, err, history, input, tag>>

\* mutant: the result list is shared by all the instances
ConstructMut_C8 ==
    /\ pc = "start"
    /\ res' = [ResNew("lxb_char_t", "lxb_css_syntax_res_name_map", TRUE, Capacity)
                 EXCEPT !.result = IF history = <<>> THEN <<>>
                                   ELSE history[Len(history)].tags]
    /\ calls' = <<"construct">>
    /\ code' = RangeStart
    /\ visited' = <<>>
    /\ pc' = "loop"
    /\ UNCHANGED <<ret, err, history, input, tag>>

\* res = lexbor.LXB.Res("lxb_char_t", "lxb_css_syntax_res_name_map", True, 256)
Construct ==
    /\ pc = "start"
    /\ res' = ResNew("lxb_char_t", "lxb_css_syntax_res_name_map", TRUE, Capacity)
    /\ calls' = <<"construct">>
    /\ code' = RangeStart
    /\ visited' = <<>>
    /\ pc' = "loop"
    /\ UNCHANGED <<ret, err, history, input, tag>>

\* mutant: the second elif is an if, so that a second chain runs for the
\* codes of a-z and its else branch appends as well
NameLoopMut_C10 ==
    /\ pc = "loop"
    /\ code < RangeStop
    /\ res' = IF Clause(1, code)
              THEN ResAppend(ResAppend(res, Classify(code)), "0x00")
              ELSE ResAppend(res, Classify(code))
    /\ calls' = IF Clause(1, code) THEN calls \o <<"append", "append">>
                ELSE Append(calls, "append")
    /\ visited' = Append(visited, code)
    /\ code' = code + 1
    /\ pc' = IF code + 1 < RangeStop THEN "loop" ELSE "create"
    /\ UNCHANGED <<ret, err, history, input, tag>>

\* mutant: res.create is indented into the loop body
NameLoopMut_C7 ==
    /\ pc = "loop"
    /\ code < RangeStop
    /\ res' = ResAppend(res, Classify(code))
    /\ calls' = calls \o <<"append", "create">>
    /\ visited' = Append(visited, code)
    /\ code' = code + 1
    /\ pc' = IF code + 1 < RangeStop THEN "loop" ELSE "create"
    /\ UNCHANGED <<ret, err, history, input, tag>>

\* one iteration of "for code in range(0, 255)": the chain appends one tag
NameLoop ==
    /\ pc = "loop"
    /\ code < RangeStop
    /\ res' = ResAppend(res, Classify(code))
    /\ calls' = Append(calls, "append")
    /\ visited' = Append(visited, code)
    /\ code' = code + 1
    /\ pc' = IF code + 1 < RangeStop THEN "loop" ELSE "create"
    /\ UNCHANGED <<ret, err, history, input, tag>>

\* map_list = res.create(10, True, def_before); return ''.join(map_list)
CreateAndReturn ==
    /\ pc = "create"
    /\ calls' = Append(calls, "create")
    /\ LET r == ResCreate(res, 10, TRUE, def_before)
           out == IF r.err = "none" THEN Join(r.lines) ELSE NoRet
       IN /\ err' = r.err
          /\ ret' = out
          /\ pc' = IF r.err = "none" THEN "done" ELSE "failed"
          /\ history' = Append(history,
                               [tags |-> res.result,
                                args |-> <<10, TRUE, def_before>>,
                                ret |-> out,
                                err |-> r.err])
    /\ UNCHANGED <<code, res, visited, input, tag>>

\* name() is called again: its locals are fresh
CallAgain ==
    /\ pc \in {"done", "failed"}
    /\ Len(history) < MaxRuns
    /\ pc' = "start"
    /\ code' = RangeStart
    /\ res' = NoRes
    /\ calls' = <<>>
    /\ visited' = <<>>
    /\ ret' = NoRet
    /\ err' = "none"
    /\ UNCHANGED <<history, input, tag>>

Next == Construct \/ NameLoop \/ CreateAndReturn \/ CallAgain

Spec == Init /\ [][Next]_vars

(* ------------------- the chain applied to single values ---------------- *)
InputDomain == (0 - Margin) .. (255 + Margin)

InitClassify ==
    /\ pc = "start"
    /\ code = RangeStart
    /\ res = NoRes
    /\ calls = <<>>
    /\ visited = <<>>
    /\ ret = NoRet
    /\ err = "none"
    /\ history = <<>>
    /\ input \in InputDomain
    /\ tag = NoTag

\* the chain of lines 18-55 run on the value input
ApplyChain ==
    /\ tag = NoTag
    /\ tag' = Classify(input)
    /\ UNCHANGED <<pc, code, res, calls, visited, ret, err, history, input>>

NextClassify == ApplyChain

SpecClassify == InitClassify /\ [][NextClassify]_vars

(* ------------------------------ properties ----------------------------- *)
NameStartSet ==
    (97..122) \cup (65..90) \cup (192..214) \cup (216..246) \cup (248..255)
    \cup {95, 183}
NameSet == (48..57) \cup {45}

ExpectedTag(v) ==
    IF v \in NameStartSet THEN "0x01"
    ELSE IF v \in NameSet THEN "0x02" ELSE "0x00"

AppendCalls == {i \in 1..Len(calls) : calls[i] = "append"}
CreateCalls == {i \in 1..Len(calls) : calls[i] = "create"}

\* C1: when res.create is called, append has been called exactly 256 times
\* (the length given at construction), once per byte value 0..255 in
\* strictly ascending order, and the accumulated sequence has 256 entries.
C1_TableHasDeclaredLength ==
    pc = "create" =>
        /\ Cardinality(AppendCalls) = res.length
        /\ Len(res.result) = res.length
        /\ visited = [i \in 1..256 |-> i - 1]

\* C2: for every value of [0x61,0x7A], [0x41,0x5A], [0xC0,0xD6],
\* [0xD8,0xF6], [0xF8,0xFF], 0x5F and 0xB7 the chain yields "0x01".
C2_NameStart ==
    (tag # NoTag /\ input \in NameStartSet) => tag = "0x01"

C2_Witness == tag # NoTag /\ input = 183

\* C3: for every value of [0x30,0x39] and for 0x2D the chain yields "0x02".
C3_Name ==
    (tag # NoTag /\ input \in NameSet) => tag = "0x02"

C3_Witness == tag # NoTag /\ input = 57

\* C4: every value of [0,255] outside the name-start set and the name set
\* yields "0x00"; 0x00 and the gap value 0xD7 do.
C4_None ==
    (tag # NoTag /\ input \in (0..255) \ (NameStartSet \cup NameSet))
        => tag = "0x00"

C4_Witness == tag = "0x00" /\ input = 215

C7_Protocol ==
    /\ calls # <<>> => calls[1] = "construct"
    /\ \A i \in 2..Len(calls) : calls[i] # "construct"
    /\ \A i \in CreateCalls : i = Len(calls)
    /\ pc \in {"loop", "create"} => CreateCalls = {}
    /\ pc \in {"done", "failed"} => CreateCalls = {Len(calls)}

C7_Witness ==
    pc = "failed" /\ CreateCalls = {Len(calls)}
    /\ Cardinality(AppendCalls) = Len(calls) - 2 /\ Len(calls) > 200

Swap(a, b) ==
    [k \in 1..NumClauses |-> IF k = a THEN b ELSE IF k = b THEN a ELSE k]
Rotate(n) ==
    [k \in 1..NumClauses |-> ((k + n - 1) % NumClauses) + 1]
Reorderings ==
    {Swap(a, b) : a, b \in 1..NumClauses}
    \cup {Rotate(n) : n \in 0..(NumClauses - 1)}
    \cup {[k \in 1..NumClauses |-> NumClauses + 1 - k]}

\* C9: for every byte value at most one of the nine conditions holds, and
\* the tag is the same when the clauses are evaluated in another order.
C9_NoOverlap ==
    (tag # NoTag /\ input \in 0..255) =>
        /\ Cardinality({k \in 1..NumClauses : Clause(k, input)}) <= 1
        /\ \A k \in 1..NumClauses : Clause(k, input) => ClauseTag(k) = tag
        /\ \A o \in Reorderings : ChainFrom(o, 1, input) = tag

C9_Witness ==
    tag # NoTag /\ input = 246 /\ Clause(5, input)

\* C10: during the accumulation the number of tags equals the number of
\* byte values visited, and the i-th tag is the tag of byte value i.
C10_LoopInvariant ==
    pc \in {"loop", "create"} =>
        /\ Len(res.result) = Len(visited)
        /\ Len(visited) = code - RangeStart
        /\ \A i \in 1..Len(res.result) :
              visited[i] = i - 1 /\ res.result[i] = ExpectedTag(i - 1)

C10_Witness ==
    pc = "loop" /\ code = 123 /\ Len(res.result) = 123

====
